---- MODULE Spec2Model ----
(***************************************************************************)
(* A model of the rigid-body dynamics core: Body (src/src/dynamic/body/    *)
(* body.ts), the shape proxy (src/unnamed/part_000, src/src/shape/         *)
(* circle.ts), WorldCreator (src/src/dynamic/core.ts) and the renderer's   *)
(* LayerManager (src/src/render/LayerManager.ts).                          *)
(*                                                                         *)
(* Numbers.  Kinematic quantities (pos, rot, linearVel, angularVel,        *)
(* linearAcc, angularAcc, the proxy's x, y, rotate) are integers.  Mass    *)
(* data and force parameters are exact rationals [num, den]; den = 0 with  *)
(* num > 0 stands for JavaScript's Infinity (1/0).  A force contribution   *)
(* is added to an integer acceleration only when it is a whole number:     *)
(* the guards of the stepping actions keep the run inside that grid.       *)
(*                                                                         *)
(* JavaScript's `undefined` for an absent option is the empty sequence     *)
(* <<>>; a present option v is <<v>>.                                      *)
(*                                                                         *)
(* Not modelled: boundRect (createBoundRect/updateBoundRect throw in the   *)
(* base class and the subclasses are outside src/), centroid,              *)
(* rotationInertia, torque, friction, restitution, isCollide, curMotion    *)
(* and the collided/separated callbacks.                                   *)
(***************************************************************************)
EXTENDS Integers, Naturals, Sequences, FiniteSets, TLC

VARIABLES
    body,               \* body id -> the Body object's fields
    arrays,             \* array object -> its contents (a sequence of body ids)
    bodyHeap,           \* BodyHeap.heap: the array object the heap holds
    motionBodies,       \* the array object Motion was given at construction
    collisionBodies,    \* the array object CollisionManager was given
    boundariesManager,  \* the boundaries held by BoundariesManager, in order
    layerMap,           \* LayerManager.layerMap: zIndex -> shapes of that layer
    opt,                \* WorldCreator.opt
    gen,                \* the parameters of the three force generators
    forceManager,       \* ForceManager: the registered linear / angular generators
    container,          \* LayerManager.container: the element's offsetWidth, offsetHeight
    containerSize,      \* LayerManager.containerSize
    totalShapeCount,    \* LayerManager.totalShapeCount
    boundariesSize,     \* the size array BoundariesManager was constructed with
    ret,                \* the value the last query returned
    hist,               \* history: per body, values recorded for the properties
    lastOp              \* history: the last operation and its arguments

vars == <<body, arrays, bodyHeap, motionBodies, collisionBodies, boundariesManager,
          layerMap, opt, gen, forceManager, container, containerSize,
          totalShapeCount, boundariesSize, ret, hist, lastOp>>

\* what the size and count queries read and write
queryVars == <<container, containerSize, totalShapeCount, boundariesSize, ret>>

worldVars == <<arrays, bodyHeap, motionBodies, collisionBodies, boundariesManager,
               layerMap, opt, gen, forceManager, queryVars>>

----------------------------------------------------------------------------
(* Values *)

None == <<>>
Some(v) == <<v>>

Rat(n, d) == [num |-> n, den |-> d]
FromInt(n) == Rat(n, 1)
RIsZero(r) == r.num = 0 /\ r.den # 0
RIsInt(r) == r.den > 0 /\ r.num % r.den = 0
RToInt(r) == r.num \div r.den
\* 1/x as JavaScript computes it: 1/0 is Infinity, 1/Infinity is 0
RInv(r) ==
    IF r.num < 0 THEN Rat(-r.den, -r.num) ELSE Rat(r.den, r.num)
RMul(a, b) == Rat(a.num * b.num, a.den * b.den)
RDiv(a, b) == RMul(a, RInv(b))
\* a rational times an integer, as a rational
RScale(r, k) == Rat(r.num * k, r.den)

Add(a, b) == <<a[1] + b[1], a[2] + b[2]>>
Sub(a, b) == <<a[1] - b[1], a[2] - b[2]>>
Len2(v) == v[1] * v[1] + v[2] * v[2]

\* JavaScript's a || d for an optional number and for an optional object
OrNum(o, d) == IF o = None \/ o[1] = 0 THEN d ELSE o[1]
OrObj(o, d) == IF o = None THEN d ELSE o[1]

Range(s) == {s[i] : i \in DOMAIN s}

----------------------------------------------------------------------------
(* shape (src/unnamed/part_000) *)

\* new shape(config): _x, _y from pin, _rotate from rotate || 0
NewShape(config) ==
    [x |-> config.pin[1],
     y |-> config.pin[2],
     rotate |-> OrNum(config.rotate, 0),
     centre |-> config.centre,
     area |-> config.area]

\* shape.x(x) / shape.y(y) / shape.rotate(deg) with a number argument
shapeX(s, x) == [s EXCEPT !.x = x]
shapeY(s, y) == [s EXCEPT !.y = y]
shapeRotate(s, deg) == [s EXCEPT !.rotate = deg]

\* shape.attr('center'): a Circle's centre is its pin; the other kinds'
\* centre lies at a fixed offset from the pin, given by the shape config
shapeCenter(s) == Add(<<s.x, s.y>>, s.centre)

----------------------------------------------------------------------------
(* Body (src/src/dynamic/body/body.ts) *)

staticNone == 0
staticPosition == 1
staticTotal == 2

stateInit == 0
stateSimulate == 1
stateSleep == 2

DefaultDensity == Rat(1, 100)

\* the switch on opt.nature.static
StaticOf(nature) ==
    IF nature.static = None THEN staticNone
    ELSE IF nature.static[1] = "none" THEN staticNone
    ELSE IF nature.static[1] = "position" THEN staticPosition
    ELSE IF nature.static[1] = "total" THEN staticTotal
    ELSE staticNone

initPhysicalData(shape, o) ==
    LET base ==
        [shape |-> shape,
         pos |-> shapeCenter(shape),
         rot |-> shape.rotate,
         linearAcc |-> <<0, 0>>,
         linearVel |-> <<0, 0>>,
         angularVel |-> 0,
         angularAcc |-> 0,
         mass |-> FromInt(0),
         inverseMass |-> FromInt(-1),
         area |-> 0,
         density |-> DefaultDensity,
         static |-> staticNone,
         state |-> stateInit,
         frameMotionListIn10 |-> <<>>]
    IN  IF o.nature = None THEN base
        ELSE LET n == o.nature[1] IN
             [base EXCEPT
                !.linearVel = OrObj(n.linearVelocity, base.linearVel),
                !.angularVel = OrNum(n.angularVelocity, base.angularVel),
                !.mass = FromInt(OrNum(n.mass, 0)),
                !.static = StaticOf(n)]

\* new Body(opt, type)
NewBody(o) == initPhysicalData(NewShape(o.shape), o)

\* the subclasses' calcArea and calcDensity
calcArea(b) == b.shape.area
calcDensity(b) == RDiv(b.mass, FromInt(b.area))

setMassDataNoTotal(b0) ==
    LET b1 == [b0 EXCEPT !.area = calcArea(b0)]
        b2 == IF ~RIsZero(b1.mass)
              THEN [b1 EXCEPT !.density = calcDensity(b1)]
              ELSE [b1 EXCEPT !.mass = RScale(b1.density, b1.area)]
    IN  IF b2.static = staticPosition
        THEN [b2 EXCEPT !.inverseMass = FromInt(0)]
        ELSE [b2 EXCEPT !.inverseMass = RInv(b2.mass)]

setMassData(b0) ==
    LET b1 == [b0 EXCEPT !.area = calcArea(b0)]
        b2 == IF ~RIsZero(b1.mass)
              THEN [b1 EXCEPT !.density = calcDensity(b1)]
              ELSE [b1 EXCEPT !.mass = RScale(b1.density, b1.area)]
    IN  IF b2.static = staticPosition \/ b2.static = staticTotal
        THEN [b2 EXCEPT !.inverseMass = FromInt(0)]
        ELSE [b2 EXCEPT !.inverseMass = RInv(b2.mass)]

setLinearVel(b, vel) == [b EXCEPT !.linearVel = vel]
setAngularVel(b, vel) == [b EXCEPT !.angularVel = vel]

setPosAbsolute(b, pos) ==
    [b EXCEPT !.pos = pos,
              !.shape = shapeY(shapeX(b.shape, pos[1]), pos[2])]

setPos(b, pos) ==
    LET shapeX0 == b.shape.x
        shapeY0 == b.shape.y
        dPos == Sub(pos, b.pos)
    IN  [b EXCEPT !.pos = pos,
                  !.shape = shapeY(shapeX(b.shape, shapeX0 + dPos[1]), shapeY0 + dPos[2])]

setRotation(b, deg) ==
    [b EXCEPT !.rot = deg,
              !.shape = shapeRotate(b.shape, deg)]

integratePosition(b) ==
    LET b1 == [b EXCEPT !.linearVel = Add(b.linearVel, b.linearAcc)]
    IN  setPos(b1, Add(b1.linearVel, b1.pos))

FullTurn == 360

integrateRotation(b) ==
    LET b1 == [b EXCEPT !.angularVel = b.angularVel + b.angularAcc]
        b2 == IF b1.rot >= FullTurn THEN [b1 EXCEPT !.rot = b1.rot % FullTurn] ELSE b1
    IN  setRotation(b2, b2.rot + b2.angularVel)

----------------------------------------------------------------------------
(* ForceManager and the global force generators (dynamic/force) *)

\* what a registered linear generator adds to the body's linearAcc
LinearForce(g, name, b) ==
    IF name = "gravity" THEN g.gravity
    ELSE <<RScale(g.linearDrag[1], -b.linearVel[1]),
           RScale(g.linearDrag[2], -b.linearVel[2])>>

\* what a registered angular generator adds to the body's angularAcc
AngularForce(g, name, b) == RScale(g.angularDrag, -b.angularVel)

RECURSIVE SumLinear(_, _, _, _)
SumLinear(g, names, b, acc) ==
    IF names = <<>> THEN acc
    ELSE LET f == LinearForce(g, Head(names), b)
         IN  SumLinear(g, Tail(names), b, Add(acc, <<RToInt(f[1]), RToInt(f[2])>>))

RECURSIVE SumAngular(_, _, _, _)
SumAngular(g, names, b, acc) ==
    IF names = <<>> THEN acc
    ELSE SumAngular(g, Tail(names), b, acc + RToInt(AngularForce(g, Head(names), b)))

\* global forces act on non-static bodies only
applyLinearForce(fm, g, b) ==
    IF b.static # staticNone THEN b
    ELSE [b EXCEPT !.linearAcc = SumLinear(g, fm.linear, b, b.linearAcc)]

applyAngularForce(fm, g, b) ==
    IF b.static = staticTotal THEN b
    ELSE [b EXCEPT !.angularAcc = SumAngular(g, fm.angular, b, b.angularAcc)]

\* ForceManager.clear(body)
forceClear(b) == [b EXCEPT !.linearAcc = <<0, 0>>, !.angularAcc = 0]

\* every contribution the registered generators make to b is a whole number
ForcesWhole(fm, g, b) ==
    /\ b.static = staticNone =>
          \A i \in DOMAIN fm.linear :
             LET f == LinearForce(g, fm.linear[i], b) IN RIsInt(f[1]) /\ RIsInt(f[2])
    /\ b.static # staticTotal =>
          \A i \in DOMAIN fm.angular : RIsInt(AngularForce(g, fm.angular[i], b))

updateExplicitEuler(fm, g, b) ==
    LET b1 == applyAngularForce(fm, g, applyLinearForce(fm, g, b))
        b2 == setPos(b1, Add(b1.linearVel, b1.pos))
        b3 == [b2 EXCEPT !.linearVel = Add(b2.linearVel, b2.linearAcc)]
    IN  forceClear(integrateRotation(b3))

\* Body.update(forceManager)
update(fm, g, b) ==
    LET b1 == applyLinearForce(fm, g, b)
        b2 == applyAngularForce(fm, g, b1)
        b3 == integratePosition(b2)
        b4 == integrateRotation(b3)
    IN  forceClear(b4)

----------------------------------------------------------------------------
(* Body.isTimeToSleep *)

SleepSamples == 20
SleepThreshold == 500

RECURSIVE SeqSum(_)
SeqSum(s) == IF s = <<>> THEN 0 ELSE Head(s) + SeqSum(Tail(s))

RECURSIVE SeqSumSq(_)
SeqSumSq(s) == IF s = <<>> THEN 0 ELSE Head(s) * Head(s) + SeqSumSq(Tail(s))

\* calcStandardDeviation(list) < t, for the population standard deviation:
\* sqrt(sum((x - mean)^2) / n) < t  <=>  n*sum(x^2) - (sum x)^2 < t^2 * n^2
StdDevBelow(list, t) ==
    LET n == Len(list)
    IN  n * SeqSumSq(list) - SeqSum(list) * SeqSum(list) < t * t * n * n

isTimeToSleepNoShift(b, lv, av) ==
    LET motion == Len2(lv) + av * av
        l2 == Append(b.frameMotionListIn10, motion)
        b1 == [b EXCEPT !.frameMotionListIn10 = l2]
    IN  IF Len(l2) = SleepSamples
        THEN IF StdDevBelow(l2, SleepThreshold)
             THEN [b1 EXCEPT !.state = stateSleep]
             ELSE [b1 EXCEPT !.state = stateSimulate]
        ELSE b1

isTimeToSleep(b, lv, av) ==
    LET motion == Len2(lv) + av * av
        l1 == IF Len(b.frameMotionListIn10) >= SleepSamples
              THEN Tail(b.frameMotionListIn10)
              ELSE b.frameMotionListIn10
        l2 == Append(l1, motion)
        b1 == [b EXCEPT !.frameMotionListIn10 = l2]
    IN  IF Len(l2) = SleepSamples
        THEN IF StdDevBelow(l2, SleepThreshold)
             THEN [b1 EXCEPT !.state = stateSleep]
             ELSE [b1 EXCEPT !.state = stateSimulate]
        ELSE b1

----------------------------------------------------------------------------
(* The world's collaborators: BodyHeap, BoundariesManager, the renderer's  *)
(* LayerManager (src/src/render/LayerManager.ts).  A world value w is the  *)
(* record of the objects a WorldCreator method can change.                 *)

\* the layer the renderer appends a body's shape to
DefaultLayer == 0

\* LayerManager.append(appendInfo): the layer is created when missing
layerAppend(lm, z, shape) ==
    LET lm1 == IF z \in DOMAIN lm THEN lm ELSE (z :> <<>>) @@ lm
    IN  [lm1 EXCEPT ![z] = Append(@, shape)]

\* LayerManager.remove(removeInfo): an emptied layer is destroyed
layerRemove(lm, z, shape) ==
    LET rest == SelectSeq(lm[z], LAMBDA s : s # shape)
    IN  IF rest = <<>>
        THEN [k \in DOMAIN lm \ {z} |-> lm[k]]
        ELSE [lm EXCEPT ![z] = rest]

\* LayerManager.clear(): every layer is emptied, every layer but 0 destroyed
layerClear(lm) == [k \in DOMAIN lm \cap {0} |-> <<>>]

\* new LayerManager(containerEle); lm is the record of the manager's fields
layerManagerNew(containerEle) ==
    [container |-> containerEle,
     containerSize |-> <<containerEle.offsetWidth, containerEle.offsetHeight>>,
     totalShapeCount |-> 0,
     layerMap |-> <<>>]

\* LayerManager.getHeight() / getWidth(): containerSize[0] and containerSize[1]
\* of the source are the first and the second element here
layerGetHeight(lm) == lm.containerSize[1]
layerGetWidth(lm) == lm.containerSize[2]

\* Layer.getCount(): the number of shapes the layer holds
layerGetCount(layer) == Len(layer)

RECURSIVE SumCounts(_, _)
SumCounts(lmap, zs) ==
    IF zs = {} THEN 0
    ELSE LET z == CHOOSE k \in zs : TRUE
         IN  layerGetCount(lmap[z]) + SumCounts(lmap, zs \ {z})

\* LayerManager.getTotalCount(): every layer's count is added to
\* totalShapeCount, which is returned; the result is the manager after the
\* call and the value returned
layerGetTotalCount(lm) ==
    LET total == lm.totalShapeCount + SumCounts(lm.layerMap, DOMAIN lm.layerMap)
    IN  [lm |-> [lm EXCEPT !.totalShapeCount = total], value |-> total]

\* Renderer.getWidth() / getHeight() / getShapesCount(): the layer manager's
rendererGetWidth(lm) == layerGetWidth(lm)
rendererGetHeight(lm) == layerGetHeight(lm)
rendererGetShapesCount(lm) == layerGetTotalCount(lm)

\* BodyHeap.append(body): a body in state init gets its mass data (after the
\* subclass's initBodyData, which sets fields left out here) and enters the
\* simulation; the body joins the live sequence
heapAppend(w, id) ==
    LET b == w.body[id]
        b1 == IF b.state = stateInit
              THEN [setMassData(b) EXCEPT !.state = stateSimulate]
              ELSE b
    IN  [w EXCEPT !.body[id] = b1,
                  !.arrays[w.bodyHeap] = Append(@, id)]

\* BodyHeap.remove(id)
heapRemove(w, id) ==
    [w EXCEPT !.arrays[w.bodyHeap] = SelectSeq(@, LAMBDA x : x # id)]

\* BodyHeap.clear(): the live sequence is emptied in place
heapClear(w) == [w EXCEPT !.arrays[w.bodyHeap] = <<>>]

\* BoundariesManager.add / remove
boundaryAdd(w, id) == [w EXCEPT !.boundariesManager = @ \cup {id}]
boundaryRemove(w, id) == [w EXCEPT !.boundariesManager = @ \ {id}]

\* Renderer.append(shape) / remove(shape) / clear()
rendererAppend(w, id) == [w EXCEPT !.layerMap = layerAppend(@, DefaultLayer, id)]
rendererRemove(w, id) == [w EXCEPT !.layerMap = layerRemove(@, DefaultLayer, id)]
rendererClear(w) == [w EXCEPT !.layerMap = layerClear(@)]

----------------------------------------------------------------------------
(* WorldCreator (src/src/dynamic/core.ts) *)

\* an argument of append / remove: a body, a boundary, or an array of them
BodyArg(id) == [isArray |-> FALSE, isBoundary |-> FALSE, id |-> id]
BoundaryArg(id) == [isArray |-> FALSE, isBoundary |-> TRUE, id |-> id]
ArrayArg(items) == [isArray |-> TRUE, items |-> items]

appendOne(w, item) ==
    IF item.isBoundary
    THEN boundaryAdd(w, item.id)
    ELSE heapAppend(rendererAppend(w, item.id), item.id)

RECURSIVE appendEach(_, _)
appendEach(w, items) ==
    IF items = <<>> THEN w
    ELSE appendEach(IF Head(items).isArray
                    THEN appendEach(w, Head(items).items)
                    ELSE appendOne(w, Head(items)),
                    Tail(items))

appendFirstOnly(w, arg) ==
    IF arg.isArray
    THEN (IF arg.items = <<>> THEN w ELSE appendOne(w, Head(arg.items)))
    ELSE appendOne(w, arg)

\* WorldCreator.append(body)
append(w, arg) ==
    IF arg.isArray
    THEN appendEach(w, arg.items)
    ELSE appendOne(w, arg)

\* WorldCreator.remove(body)
remove(w, item) ==
    IF item.isBoundary
    THEN boundaryRemove(w, item.id)
    ELSE heapRemove(rendererRemove(w, item.id), item.id)

\* WorldCreator.getWidth() / getHeight() / getBodyCount()
getWidth(lm) == rendererGetWidth(lm)
getHeight(lm) == rendererGetHeight(lm)
getBodyCount(lm) == rendererGetShapesCount(lm)

clearRendererOnly(w) == rendererClear(w)

\* WorldCreator.clear()
clear(w) == heapClear(rendererClear(w))

DefaultGravity == <<FromInt(0), FromInt(5)>>
DefaultLinearDrag == <<Rat(2, 10), FromInt(0)>>
DefaultAngularDrag == Rat(15, 100)

\* a || d for an optional number held as a rational
OrRat(o, d) == IF o = None \/ RIsZero(o[1]) THEN d ELSE o[1]

\* WorldCreator.initGlobalForce(opt): the options, the three generators and
\* their registration in the force manager
initGlobalForce(o) ==
    LET o1 == [gravity |-> OrObj(o.gravity, DefaultGravity),
               linearDrag |-> OrObj(o.linearDrag, DefaultLinearDrag),
               angularDrag |-> OrRat(o.angularDrag, DefaultAngularDrag)]
    IN  [opt |-> o1,
         gen |-> [gravity |-> o1.gravity,
                  linearDrag |-> o1.linearDrag,
                  angularDrag |-> o1.angularDrag],
         forceManager |-> [linear |-> <<"gravity", "linearDrag">>,
                           angular |-> <<"angularDrag">>]]

\* Object.assign(target, source): the keys present in source are copied
assign(target, source) ==
    [k \in DOMAIN target |-> IF source[k] = None THEN target[k] ELSE source[k][1]]

\* ForceGenerator.set(params): the generator takes params as its parameters;
\* AngularDrag's single parameter is the first element of params
generatorSet(g, name, params) ==
    [g EXCEPT ![name] = IF name = "angularDrag" THEN params[1] ELSE params]

setGlobalForceReplace(f, o) ==
    LET o1 == [k \in DOMAIN f.opt |->
                  IF o[k] = None THEN initGlobalForce(o).opt[k] ELSE o[k][1]]
        g1 == generatorSet(f.gen, "gravity", o1.gravity)
        g2 == generatorSet(g1, "linearDrag", o1.linearDrag)
        g3 == generatorSet(g2, "angularDrag", <<o1.angularDrag>>)
    IN  [f EXCEPT !.opt = o1, !.gen = g3]

\* WorldCreator.setGlobalForce(opt); f is the record [opt, gen, forceManager]
setGlobalForce(f, o) ==
    LET o1 == assign(f.opt, o)
        g1 == generatorSet(f.gen, "gravity", o1.gravity)
        g2 == generatorSet(g1, "linearDrag", o1.linearDrag)
        g3 == generatorSet(g2, "angularDrag", <<o1.angularDrag>>)
    IN  [f EXCEPT !.opt = o1, !.gen = g3]

----------------------------------------------------------------------------
(* State: the world and the bodies as values of the variables *)

BodyIds == {"b1", "b2"}
BoundaryIds == {"BoundaryBottom", "BoundaryTop"}

HeapArray == "heap"

W == [body |-> body, arrays |-> arrays, bodyHeap |-> bodyHeap,
      boundariesManager |-> boundariesManager, layerMap |-> layerMap]

F == [opt |-> opt, gen |-> gen, forceManager |-> forceManager]

\* the renderer's layer manager
LM == [container |-> container, containerSize |-> containerSize,
       totalShapeCount |-> totalShapeCount, layerMap |-> layerMap]

SetW(w) ==
    /\ body' = w.body
    /\ arrays' = w.arrays
    /\ boundariesManager' = w.boundariesManager
    /\ layerMap' = w.layerMap
    /\ UNCHANGED <<bodyHeap, motionBodies, collisionBodies, queryVars>>

Heap == arrays[bodyHeap]
MotionSeq == arrays[motionBodies]
CollisionSeq == arrays[collisionBodies]

\* history kept for a body: its proxy offset at construction, pos and rot at
\* insertion, the updates it went through, and its run of motionless samples
NewHist(b) ==
    [off0 |-> Sub(<<b.shape.x, b.shape.y>>, b.pos),
     pos0 |-> b.pos, rot0 |-> b.rot, vel0 |-> b.linearVel,
     steps |-> 0, zeroRun |-> 0, moving |-> 0]

Element(width, height) == [offsetWidth |-> width, offsetHeight |-> height]

\* new WorldCreator(containerEle, opt) and new Body(cfg) for every body, then
\* world.append(items)
ConstructIn(containerEle, o, cfgs, items) ==
    LET f == initGlobalForce(o)
        lm == layerManagerNew(containerEle)
        w0 == [body |-> [i \in BodyIds |-> NewBody(cfgs[i])],
               arrays |-> (HeapArray :> <<>>),
               bodyHeap |-> HeapArray,
               boundariesManager |-> {},
               layerMap |-> lm.layerMap]
        w == append(w0, ArrayArg(items))
    IN
    /\ container = lm.container
    /\ containerSize = lm.containerSize
    /\ totalShapeCount = lm.totalShapeCount
    /\ boundariesSize = <<getWidth(lm), getHeight(lm)>>
    /\ ret = None
    /\ body = w.body
    /\ arrays = w.arrays
    /\ bodyHeap = w.bodyHeap
    /\ motionBodies = w0.bodyHeap
    /\ collisionBodies = w0.bodyHeap
    /\ boundariesManager = w.boundariesManager
    /\ layerMap = w.layerMap
    /\ opt = f.opt
    /\ gen = f.gen
    /\ forceManager = f.forceManager
    /\ hist = [i \in BodyIds |-> NewHist(w.body[i])]
    /\ lastOp = [name |-> "new", arg |-> o]

\* the same, in the container the scenarios share
Construct(o, cfgs, items) == ConstructIn(Element(800, 600), o, cfgs, items)

\* history follows an insertion: pos and rot of the bodies that were in state init
Inserted(w0, w1) ==
    [i \in BodyIds |->
        IF w0.body[i].state = stateInit /\ w1.body[i].state # stateInit
        THEN [hist[i] EXCEPT !.pos0 = w1.body[i].pos, !.rot0 = w1.body[i].rot,
                             !.vel0 = w1.body[i].linearVel]
        ELSE hist[i]]

Shape(pin, rotate, centre, area) ==
    [pin |-> pin, rotate |-> rotate, centre |-> centre, area |-> area]
Nature(mass, static, lv, av) ==
    [mass |-> mass, static |-> static, linearVelocity |-> lv, angularVelocity |-> av]
Cfg(shape, nature) == [shape |-> shape, nature |-> nature]
Config(g, ld, ad) == [gravity |-> g, linearDrag |-> ld, angularDrag |-> ad]

----------------------------------------------------------------------------
(* Spec: the world's methods -- append, remove, clear -- and the stepping  *)
(* of the bodies Motion was given.                                         *)

MaxList == 2
MaxSteps == 2

FreeCfg == Cfg(Shape(<<0, 0>>, None, <<0, 0>>, 200), None)
HeavyCfg ==
    Cfg(Shape(<<1, 2>>, Some(90), <<2, 1>>, 4),
        Some(Nature(Some(2), Some("none"), Some(<<5, 0>>), Some(20))))
TotalCfg ==
    Cfg(Shape(<<4, 4>>, None, <<0, 0>>, 9),
        Some(Nature(None, Some("total"), None, None)))
TotalMovingCfg ==
    Cfg(Shape(<<4, 4>>, None, <<0, 0>>, 9),
        Some(Nature(Some(3), Some("total"), Some(<<1, 0>>), None)))
PositionCfg ==
    Cfg(Shape(<<7, 0>>, Some(10), <<1, 1>>, 0),
        Some(Nature(None, Some("position"), None, Some(20))))
OddStaticCfg ==
    Cfg(Shape(<<7, 0>>, None, <<0, 0>>, 0),
        Some(Nature(None, Some("fixed"), None, None)))

WorldCfgs ==
    {"b1" :> FreeCfg @@ "b2" :> TotalMovingCfg,
     "b1" :> HeavyCfg @@ "b2" :> TotalCfg,
     "b1" :> PositionCfg @@ "b2" :> OddStaticCfg}

WorldConfigs ==
    {Config(None, None, None),
     Config(Some(<<FromInt(0), FromInt(1)>>), Some(<<FromInt(0), FromInt(0)>>),
            Some(FromInt(1)))}

Init ==
    \E o \in WorldConfigs, cfgs \in WorldCfgs : Construct(o, cfgs, <<>>)

Items == {BodyArg(i) : i \in BodyIds} \cup {BoundaryArg(k) : k \in BoundaryIds}

\* the arrays of at most n different items
RECURSIVE ItemLists(_)
ItemLists(n) ==
    IF n = 0 THEN {<<>>}
    ELSE LET shorter == ItemLists(n - 1)
         IN  shorter \cup {Append(l, x) : l \in {s \in shorter : Len(s) = n - 1},
                                         x \in Items}

\* the bodies an argument names, in order
RECURSIVE BodiesOf(_)
BodiesOf(items) ==
    IF items = <<>> THEN <<>>
    ELSE (IF Head(items).isBoundary THEN <<>> ELSE <<Head(items).id>>)
         \o BodiesOf(Tail(items))

ItemsOf(arg) == IF arg.isArray THEN arg.items ELSE <<arg>>

\* an argument is fresh when it names no body of the heap and no body twice
Fresh(arg) ==
    LET bs == BodiesOf(ItemsOf(arg))
    IN  /\ Range(bs) \cap Range(Heap) = {}
        /\ Cardinality(Range(bs)) = Len(bs)

AppendArgs ==
    Items \cup {ArrayArg(l) : l \in {s \in ItemLists(MaxList) :
                                      Cardinality(Range(s)) = Len(s)}}

World_append(arg) ==
    /\ Fresh(arg)
    /\ LET w == append(W, arg) IN
          /\ SetW(w)
          /\ hist' = Inserted(W, w)
    /\ lastOp' = [name |-> "append", arg |-> arg]
    /\ UNCHANGED <<opt, gen, forceManager>>

World_remove(item) ==
    /\ IF item.isBoundary THEN item.id \in boundariesManager
                          ELSE item.id \in Range(Heap)
    /\ SetW(remove(W, item))
    /\ lastOp' = [name |-> "remove", arg |-> item]
    /\ UNCHANGED <<opt, gen, forceManager, hist>>

World_clear ==
    /\ SetW(clear(W))
    /\ lastOp' = [name |-> "clear", arg |-> <<>>]
    /\ UNCHANGED <<opt, gen, forceManager, hist>>

\* the bodies one step of Motion integrates: those of its sequence that simulate
Stepped == {i \in Range(MotionSeq) : body[i].state = stateSimulate}

\* Motion's step: body.update(forceManager) for every simulating body
step(bs) ==
    [i \in BodyIds |-> IF i \in bs THEN update(forceManager, gen, body[i]) ELSE body[i]]

Motion_step ==
    /\ \A i \in Stepped : hist[i].steps < MaxSteps /\ ForcesWhole(forceManager, gen, body[i])
    /\ body' = step(Stepped)
    /\ hist' = [i \in BodyIds |->
                  IF i \in Stepped THEN [hist[i] EXCEPT !.steps = @ + 1] ELSE hist[i]]
    /\ lastOp' = [name |-> "step", arg |-> <<>>]
    /\ UNCHANGED worldVars

Next ==
    \/ \E arg \in AppendArgs : World_append(arg)
    \/ \E item \in Items : World_remove(item)
    \/ World_clear
    \/ Motion_step

Spec == Init /\ [][Next]_vars

----------------------------------------------------------------------------
(* Properties of Spec *)

IsStatic(b) == b.static = staticPosition \/ b.static = staticTotal

\* C1: a body with static == total that went through simulation steps has
\* linear velocity (0,0), angular velocity 0, and the pos and rot it had at
\* insertion.  (Violated: see C1_TotalBodyStepped.)
C1_TotalStaticNeverMoves ==
    \A i \in BodyIds :
        (body[i].static = staticTotal /\ hist[i].steps >= 1) =>
            /\ body[i].linearVel = <<0, 0>>
            /\ body[i].angularVel = 0
            /\ body[i].pos = hist[i].pos0
            /\ body[i].rot = hist[i].rot0

\* a total-static body has been stepped
C1_TotalBodyStepped ==
    \E i \in BodyIds : body[i].static = staticTotal /\ hist[i].steps >= 1

\* C2: once setMassData has run (the body left state init), inverseMass is 0
\* exactly when static is position or total, and a body with static none has
\* inverseMass 1/mass, which is not 0.
C2_InverseMassZeroIffStatic ==
    \A i \in BodyIds :
        body[i].state # stateInit =>
            /\ RIsZero(body[i].inverseMass) <=> IsStatic(body[i])
            /\ body[i].static = staticNone =>
                  /\ body[i].inverseMass.num * body[i].mass.num
                        = body[i].inverseMass.den * body[i].mass.den
                  /\ body[i].inverseMass.num # 0

\* a total-static and a free body have both been inserted
C2_Witness ==
    \E i, j \in BodyIds :
        /\ body[i].state # stateInit /\ body[i].static = staticTotal
        /\ body[j].state # stateInit /\ body[j].static = staticNone

\* what appending one body / one boundary is to do to a world
AppendedBody(w, id) ==
    [w EXCEPT !.arrays[w.bodyHeap] = Append(@, id),
              !.layerMap = IF DefaultLayer \in DOMAIN @
                           THEN [@ EXCEPT ![DefaultLayer] = Append(@, id)]
                           ELSE (DefaultLayer :> <<id>>) @@ @]

AppendedBoundary(w, id) == [w EXCEPT !.boundariesManager = @ \cup {id}]

RECURSIVE AppendedInOrder(_, _)
AppendedInOrder(w, items) ==
    IF items = <<>> THEN w
    ELSE AppendedInOrder(IF Head(items).isBoundary
                         THEN AppendedBoundary(w, Head(items).id)
                         ELSE AppendedBody(w, Head(items).id),
                         Tail(items))

\* the parts of a world that append routes to
Routed(w) == [heap |-> w.arrays[w.bodyHeap], layerMap |-> w.layerMap,
              boundariesManager |-> w.boundariesManager]

W1 == [body |-> body', arrays |-> arrays', bodyHeap |-> bodyHeap',
       boundariesManager |-> boundariesManager', layerMap |-> layerMap']

\* C8: append routes by kind.  A boundary goes to the boundary manager only
\* (heap and renderer unchanged); any other body goes to the heap and to the
\* renderer (boundary manager unchanged); an array has the effect of
\* appending its elements one by one, in order.
C8_AppendRoutes ==
    [][lastOp'.name = "append" =>
        LET arg == lastOp'.arg IN
        IF arg.isArray
        THEN Routed(W1) = Routed(AppendedInOrder(W, arg.items))
        ELSE IF arg.isBoundary
        THEN /\ boundariesManager' = boundariesManager \cup {arg.id}
             /\ arrays' = arrays /\ layerMap' = layerMap /\ body' = body
        ELSE /\ Routed(W1) = Routed(AppendedBody(W, arg.id))
             /\ boundariesManager' = boundariesManager]_vars

\* a two-element array was appended, a boundary and a body among what is held
C8_Witness ==
    /\ lastOp.name = "append" /\ lastOp.arg.isArray /\ Len(lastOp.arg.items) = 2
    /\ ~lastOp.arg.items[1].isBoundary /\ lastOp.arg.items[2].isBoundary
    /\ Len(Heap) = 2 /\ boundariesManager # {}

\* C9: after clear() the sequence Motion and CollisionManager were given at
\* construction is empty, a following step integrates no body, and the
\* boundaries are those held before.
C9_ClearDropsBodies ==
    [][/\ lastOp'.name = "clear" =>
            /\ arrays'[motionBodies'] = <<>>
            /\ arrays'[collisionBodies'] = <<>>
            /\ boundariesManager' = boundariesManager
       /\ (lastOp.name = "clear" /\ lastOp'.name = "step") => body' = body]_vars

\* clear() ran on a world holding a simulating body and a boundary
C9_Witness ==
    /\ lastOp.name = "clear"
    /\ boundariesManager # {}
    /\ \E i \in BodyIds : body[i].state = stateSimulate /\ hist[i].steps >= 1

----------------------------------------------------------------------------
(* BodySpec: the methods of one body, b1, of a world it was appended to *)

MaxBodySteps == 2

TurningCfg ==
    Cfg(Shape(<<1, 2>>, Some(350), <<2, 1>>, 4),
        Some(Nature(Some(2), None, Some(<<5, 0>>), Some(20))))
BackTurningCfg ==
    Cfg(Shape(<<0, 0>>, Some(10), <<0, 0>>, 4),
        Some(Nature(None, Some("none"), None, Some(-20))))
PinnedCfg ==
    Cfg(Shape(<<7, 0>>, Some(350), <<1, 1>>, 4),
        Some(Nature(None, Some("position"), None, Some(20))))

BodyCfgs == {FreeCfg, TurningCfg, BackTurningCfg, PinnedCfg, TotalMovingCfg}

BodyWorldConfigs ==
    {Config(None, None, None),
     Config(Some(<<FromInt(0), FromInt(1)>>), Some(<<FromInt(0), FromInt(0)>>),
            Some(FromInt(2)))}

Positions == {<<0, 0>>, <<3, -2>>}
Degrees == {90, 450, 370, -10}

TheBody == "b1"

BodyInit ==
    \E o \in BodyWorldConfigs, cfg \in BodyCfgs :
        Construct(o, TheBody :> cfg @@ "b2" :> FreeCfg, <<BodyArg(TheBody)>>)

SetBody(b) == body' = [body EXCEPT ![TheBody] = b]

Body_update ==
    /\ hist[TheBody].steps < MaxBodySteps
    /\ ForcesWhole(forceManager, gen, body[TheBody])
    /\ SetBody(update(forceManager, gen, body[TheBody]))
    /\ hist' = [hist EXCEPT ![TheBody].steps = @ + 1]
    /\ lastOp' = [name |-> "update", arg |-> <<>>]
    /\ UNCHANGED worldVars

Body_setPos(p) ==
    /\ SetBody(setPos(body[TheBody], p))
    /\ lastOp' = [name |-> "setPos", arg |-> p]
    /\ UNCHANGED <<worldVars, hist>>

Body_setRotation(d) ==
    /\ SetBody(setRotation(body[TheBody], d))
    /\ lastOp' = [name |-> "setRotation", arg |-> d]
    /\ UNCHANGED <<worldVars, hist>>

BodyNext ==
    \/ Body_update
    \/ \E p \in Positions : Body_setPos(p)
    \/ \E d \in Degrees : Body_setRotation(d)

BodySpec == BodyInit /\ [][BodyNext]_vars

Normalized(d) == d % FullTurn

\* C4: after integrateRotation (run by update) from a rot in [0,360), rot is
\* (rot + w) mod 360 for the updated angular velocity w, and so in [0,360).
\* (Violated: C4_Witness is the state the violation starts from.)
C4_RotationStaysNormalized ==
    [][(lastOp'.name = "update" /\ body[TheBody].rot >= 0 /\ body[TheBody].rot < FullTurn) =>
          /\ body'[TheBody].rot = Normalized(body[TheBody].rot + body'[TheBody].angularVel)
          /\ body'[TheBody].rot >= 0 /\ body'[TheBody].rot < FullTurn]_vars

\* what the code does hold to: rot is the sum, left as it is
C4_Witness ==
    /\ lastOp.name = "update"
    /\ body[TheBody].rot >= FullTurn \/ body[TheBody].rot < 0

\* C5: setRotation(d) leaves rot equal to d normalized into [0,360), hence the
\* same rot for d and d + 360k.  (Violated.)
C5_SetRotationNormalizes ==
    lastOp.name = "setRotation" => body[TheBody].rot = Normalized(lastOp.arg)

C5_Witness ==
    lastOp.name = "setRotation" /\ lastOp.arg >= FullTurn /\ body[TheBody].rot = lastOp.arg

ProxyOffset(b) == Sub(<<b.shape.x, b.shape.y>>, b.pos)

\* C6: after setPos(p), pos is p and the proxy's x, y moved by p minus the
\* previous pos; the offset between the proxy and pos stays what it was at
\* construction.
C6_SetPosMovesProxy ==
    [][/\ lastOp'.name = "setPos" =>
            /\ body'[TheBody].pos = lastOp'.arg
            /\ Sub(<<body'[TheBody].shape.x, body'[TheBody].shape.y>>,
                   <<body[TheBody].shape.x, body[TheBody].shape.y>>)
                 = Sub(lastOp'.arg, body[TheBody].pos)
       /\ ProxyOffset(body'[TheBody]) = hist'[TheBody].off0]_vars

\* setPos moved a body whose proxy lies off its pos, after an update
C6_Witness ==
    /\ lastOp.name = "setPos"
    /\ hist[TheBody].off0 # <<0, 0>>
    /\ hist[TheBody].steps >= 1
    /\ body[TheBody].pos = <<3, -2>>
    /\ ProxyOffset(body[TheBody]) = hist[TheBody].off0

----------------------------------------------------------------------------
(* FallSpec: one body stepped under constant global forces *)

MaxFallSteps == 10

FallShapes == {Shape(<<400, y>>, None, <<0, 0>>, 314) : y \in {0, 3}}
FallNatures ==
    {Some(Nature(Some(1), st, lv, None)) :
        st \in {None, Some("total")}, lv \in {None, Some(<<0, 1>>)}}
FallCfgs == {Cfg(sh, na) : sh \in FallShapes, na \in FallNatures}

FallConfigs ==
    {Config(Some(<<FromInt(gx), FromInt(gy)>>), ld, Some(FromInt(0))) :
        gx \in {0, 1}, gy \in {0, 5}, ld \in {None, Some(<<FromInt(0), FromInt(0)>>)}}

FallInit ==
    \E o \in FallConfigs, cfg \in FallCfgs :
        Construct(o, TheBody :> cfg @@ "b2" :> FreeCfg, <<BodyArg(TheBody)>>)

Fall_update ==
    /\ hist[TheBody].steps < MaxFallSteps
    /\ ForcesWhole(forceManager, gen, body[TheBody])
    /\ SetBody(update(forceManager, gen, body[TheBody]))
    /\ hist' = [hist EXCEPT ![TheBody].steps = @ + 1]
    /\ lastOp' = [name |-> "update", arg |-> <<>>]
    /\ UNCHANGED worldVars

FallNext == Fall_update

FallSpec == FallInit /\ [][FallNext]_vars

\* the free-fall scenario: a non-static body that started at y = 0 with zero
\* velocity, under gravity (0,5) and no drag
FreeFall ==
    /\ body[TheBody].static = staticNone
    /\ hist[TheBody].pos0[2] = 0
    /\ hist[TheBody].vel0 = <<0, 0>>
    /\ gen.gravity = <<FromInt(0), FromInt(5)>>
    /\ RIsZero(gen.linearDrag[1]) /\ RIsZero(gen.linearDrag[2])

\* C7: semi-implicit Euler.  In free fall the body has velocity.y = 5k after
\* k steps, its accumulated acceleration is cleared, and pos.y = 275 after
\* 10 steps.
C7_SemiImplicitEuler ==
    FreeFall =>
        /\ body[TheBody].linearVel[2] = 5 * hist[TheBody].steps
        /\ body[TheBody].linearAcc = <<0, 0>>
        /\ hist[TheBody].steps = 10 => body[TheBody].pos[2] = 275

C7_Witness ==
    FreeFall /\ hist[TheBody].steps = 10 /\ body[TheBody].pos = <<400, 275>>

----------------------------------------------------------------------------
(* ForceSpec: setGlobalForce on a world whose body b1 is stepped *)

OptValues(vs) == {None} \cup {Some(v) : v \in vs}

ForceConfigs ==
    {Config(g, ld, ad) :
        g \in OptValues({<<FromInt(0), FromInt(1)>>}),
        ld \in OptValues({<<FromInt(0), FromInt(0)>>}),
        ad \in OptValues({FromInt(0), FromInt(1)})}

PartialOpts ==
    {Config(g, ld, ad) :
        g \in OptValues({<<FromInt(0), FromInt(2)>>}),
        ld \in OptValues({<<FromInt(1), FromInt(0)>>}),
        ad \in OptValues({FromInt(0), FromInt(2)})}

ForceInit ==
    \E o \in ForceConfigs :
        Construct(o, TheBody :> HeavyCfg @@ "b2" :> FreeCfg, <<BodyArg(TheBody)>>)

World_setGlobalForce(o) ==
    /\ LET f == setGlobalForce(F, o) IN
          /\ opt' = f.opt
          /\ gen' = f.gen
          /\ forceManager' = f.forceManager
    /\ lastOp' = [name |-> "setGlobalForce", arg |-> o]
    /\ UNCHANGED <<body, arrays, bodyHeap, motionBodies, collisionBodies,
                   boundariesManager, layerMap, queryVars, hist>>

ForceNext ==
    \/ \E o \in PartialOpts : World_setGlobalForce(o)
    \/ Motion_step

ForceSpec == ForceInit /\ [][ForceNext]_vars

ForceKeys == {"gravity", "linearDrag", "angularDrag"}

\* C10: setGlobalForce(partialOpt) gives each generator named in partialOpt
\* the supplied value, leaves each generator not named with the value it had,
\* and registers or unregisters no generator.
C10_SetGlobalForceFrame ==
    [][lastOp'.name = "setGlobalForce" =>
          /\ \A k \in ForceKeys :
                gen'[k] = IF lastOp'.arg[k] = None THEN gen[k] ELSE lastOp'.arg[k][1]
          /\ forceManager' = forceManager]_vars

\* gravity was supplied and took its value; angularDrag was not and kept a
\* value that is not the default
C10_Witness ==
    /\ lastOp.name = "setGlobalForce"
    /\ lastOp.arg.gravity # None /\ gen.gravity = lastOp.arg.gravity[1]
    /\ lastOp.arg.angularDrag = None /\ gen.angularDrag = FromInt(2)

\* C13: at construction each of gravity, linearDrag and angularDrag takes the
\* supplied value when the option is present in the WorldConfig, a supplied
\* angularDrag of 0 included, and its default (0,5), (0.2,0), 0.15 when the
\* option is absent.  (Violated: see C13_Witness.)
C13_ConstructionDefaults ==
    lastOp.name = "new" =>
        /\ gen.gravity = IF lastOp.arg.gravity = None
                         THEN <<FromInt(0), FromInt(5)>>
                         ELSE lastOp.arg.gravity[1]
        /\ gen.linearDrag = IF lastOp.arg.linearDrag = None
                            THEN <<Rat(2, 10), FromInt(0)>>
                            ELSE lastOp.arg.linearDrag[1]
        /\ gen.angularDrag = IF lastOp.arg.angularDrag = None
                             THEN Rat(15, 100)
                             ELSE lastOp.arg.angularDrag[1]

\* what the code does hold to: a world constructed with angularDrag 0 has the
\* default angular drag, 0.15
C13_Witness ==
    /\ lastOp.name = "new"
    /\ lastOp.arg.angularDrag = Some(FromInt(0))
    /\ gen.angularDrag = Rat(15, 100)

----------------------------------------------------------------------------
(* SleepSpec: the sleep heuristic sampled on one body *)

MaxMoving == 2

SleepInputs == {[lv |-> <<0, 0>>, av |-> 0], [lv |-> <<30, 40>>, av |-> 0]}

MotionOf(in) == Len2(in.lv) + in.av * in.av

SleepInit ==
    Construct(Config(None, None, None), TheBody :> FreeCfg @@ "b2" :> FreeCfg,
              <<BodyArg(TheBody)>>)

Body_isTimeToSleep(in) ==
    /\ MotionOf(in) # 0 => hist[TheBody].moving < MaxMoving
    /\ SetBody(isTimeToSleep(body[TheBody], in.lv, in.av))
    /\ hist' = [hist EXCEPT
                  ![TheBody].zeroRun =
                      IF MotionOf(in) # 0 THEN 0
                      ELSE IF @ >= SleepSamples THEN @ ELSE @ + 1,
                  ![TheBody].moving = IF MotionOf(in) # 0 THEN @ + 1 ELSE @]
    /\ lastOp' = [name |-> "isTimeToSleep", arg |-> in]
    /\ UNCHANGED worldVars

SleepNext == \E in \in SleepInputs : Body_isTimeToSleep(in)

SleepSpec == SleepInit /\ [][SleepNext]_vars

----------------------------------------------------------------------------
(* QuerySpec: the world's queries -- getWidth, getHeight, getBodyCount --   *)
(* between append, remove and clear.                                       *)

MaxCounted == 4

Elements == {Element(800, 600), Element(500, 500)}

QueryInit ==
    \E el \in Elements :
        ConstructIn(el, Config(None, None, None),
                    "b1" :> FreeCfg @@ "b2" :> HeavyCfg, <<>>)

\* a query returns v and leaves the bodies, the heap and the layers alone
Returns(name, v) ==
    /\ ret' = Some(v)
    /\ lastOp' = [name |-> name, arg |-> <<>>]
    /\ UNCHANGED <<body, arrays, bodyHeap, motionBodies, collisionBodies,
                   boundariesManager, layerMap, opt, gen, forceManager,
                   container, containerSize, boundariesSize, hist>>

World_getWidth ==
    /\ Returns("getWidth", getWidth(LM))
    /\ UNCHANGED totalShapeCount

World_getHeight ==
    /\ Returns("getHeight", getHeight(LM))
    /\ UNCHANGED totalShapeCount

World_getBodyCount ==
    /\ totalShapeCount < MaxCounted
    /\ LET r == getBodyCount(LM) IN
          /\ Returns("getBodyCount", r.value)
          /\ totalShapeCount' = r.lm.totalShapeCount

QueryNext ==
    \/ \E item \in Items : World_append(item)
    \/ \E item \in Items : World_remove(item)
    \/ World_clear
    \/ World_getWidth
    \/ World_getHeight
    \/ World_getBodyCount

QuerySpec == QueryInit /\ [][QueryNext]_vars

\* C11: for a container of size (W, H), getWidth() returns W, getHeight()
\* returns H, and the boundary manager was built from the pair (W, H), in
\* that order.  (Violated: see C11_Witness.)
C11_SizeQueries ==
    /\ lastOp.name = "getWidth" => ret = Some(container.offsetWidth)
    /\ lastOp.name = "getHeight" => ret = Some(container.offsetHeight)
    /\ boundariesSize = <<container.offsetWidth, container.offsetHeight>>

\* what the code does hold to: in a container that is not square, getWidth()
\* returned the height, and the boundary manager was built from (H, W)
C11_Witness ==
    /\ lastOp.name = "getWidth"
    /\ container.offsetWidth # container.offsetHeight
    /\ ret = Some(container.offsetHeight)
    /\ boundariesSize = <<container.offsetHeight, container.offsetWidth>>

\* the shapes held across all layers
Held(lmap) == UNION {Range(lmap[z]) : z \in DOMAIN lmap}

\* C12: getBodyCount() returns the number of shapes held across all layers,
\* and called again with no append, remove or clear in between it returns
\* the same value.  (Violated: see C12_Witness.)
C12_BodyCountIsPure ==
    [][lastOp'.name = "getBodyCount" =>
          /\ ret' = Some(Cardinality(Held(layerMap')))
          /\ lastOp.name = "getBodyCount" => ret' = ret]_vars

\* what the code does hold to: getBodyCount() returned more than the shapes
\* held, the counts of the earlier calls being kept in totalShapeCount
C12_Witness ==
    /\ lastOp.name = "getBodyCount"
    /\ Held(layerMap) # {}
    /\ ret = Some(totalShapeCount)
    /\ totalShapeCount > Cardinality(Held(layerMap))

====
